---- MODULE Spec2Model ----
(***************************************************************************)
(* The InkyTodo contract (src/lib.rs): an id counter, a Mapping<u32, Todo> *)
(* and the event log of the contract environment, driven by the four       *)
(* messages create_todo, get_todo, update_todo_status and delete_todo.     *)
(* Messages run one at a time, each to completion, so every message is one *)
(* atomic action.                                                          *)
(*                                                                         *)
(* A u32 is kept at its full width as two 16-bit limbs <<hi, lo>> (value   *)
(* hi * 2^16 + lo): the model checker's own integers are narrower than a   *)
(* u32, and the behaviour at u32::MAX is what several properties turn on.  *)
(***************************************************************************)
EXTENDS Integers, Sequences, FiniteSets, TLC

VARIABLES
    next_todo_id,   \* InkyTodo.next_todo_id : u32
    todos,          \* InkyTodo.todos : Mapping<u32, Todo>, a function on its keys
    events,         \* events emitted through self.env(), oldest first
    last_call,      \* observation: the last message, its arguments and its result
    issued,         \* observation: ids returned by Ok create_todo calls, in call order
    deleted,        \* observation: ids of the Ok delete_todo calls
    ok_calls,       \* observation: number of Ok create/update/delete calls
    running         \* the place reached inside a create_todo taken statement by statement

vars == <<next_todo_id, todos, events, last_call, issued, deleted, ok_calls, running>>

----------------------------------------------------------------------------
(* Bounds of the exploration *)

\* Mutating messages explored per run (caps the event log).
MaxEvents == 3
\* A run may start from a long-lived store whose counter is up to NearMax below
\* u32::MAX.
NearMax == 1
\* Ids 0..MaxId are tried as message arguments, besides those next to u32::MAX.
MaxId == 2

Titles == {"", "a", "b"}
Descriptions == {"", "d"}

----------------------------------------------------------------------------
(* u32 *)

LimbMax == 65535

U32(hi, lo) == <<hi, lo>>

U32_MAX == U32(LimbMax, LimbMax)

U32Lt(a, b) == a[1] < b[1] \/ (a[1] = b[1] /\ a[2] < b[2])

U32Le(a, b) == a = b \/ U32Lt(a, b)

\* u32::wrapping_add, for n in 0..LimbMax: the sum modulo 2^32.
wrapping_add(x, n) ==
    LET sum == x[2] + n IN
    IF sum <= LimbMax THEN U32(x[1], sum)
    ELSE IF x[1] < LimbMax THEN U32(x[1] + 1, sum - LimbMax - 1)
    ELSE U32(0, sum - LimbMax - 1)

\* u32::saturating_add, for n in 0..LimbMax: the sum, or u32::MAX when it overflows.
saturating_add(x, n) ==
    LET sum == x[2] + n IN
    IF sum <= LimbMax THEN U32(x[1], sum)
    ELSE IF x[1] < LimbMax THEN U32(x[1] + 1, sum - LimbMax - 1)
    ELSE U32_MAX

ProbeIds ==
    {U32(0, k) : k \in 0..MaxId} \cup {U32(LimbMax, LimbMax - k) : k \in 0..NearMax}

----------------------------------------------------------------------------
(* Data *)

TodoStatus == {"Pending", "Completed", "Cancelled"}

Todo(id, title, description, status) ==
    [id |-> id, title |-> title, description |-> description, status |-> status]

TodoCreated(todo_id, title) ==
    [kind |-> "TodoCreated", todo_id |-> todo_id, title |-> title]

TodoUpdated(todo_id, new_status) ==
    [kind |-> "TodoUpdated", todo_id |-> todo_id, new_status |-> new_status]

TodoDeleted(todo_id, title) ==
    [kind |-> "TodoDeleted", todo_id |-> todo_id, title |-> title]

\* Result and Option values.
Ok(v) == [tag |-> "Ok", val |-> v]
Err(e) == [tag |-> "Err", err |-> e]
Some(v) == [tag |-> "Some", val |-> v]
None == [tag |-> "None"]
Unit == <<>>

\* A validation that rejects nothing.
never_empty(s) == FALSE

\* String::is_empty
is_empty(s) == s = ""

\* ink::storage::Mapping
Mapping_new == [k \in {} |-> Unit]

Mapping_get(m, k) == IF k \in DOMAIN m THEN Some(m[k]) ELSE None

Mapping_insert(m, k, v) == [x \in DOMAIN m \cup {k} |-> IF x = k THEN v ELSE m[x]]

Mapping_remove(m, k) == [x \in DOMAIN m \ {k} |-> m[x]]

\* self.env().emit_event
emit_event(log, e) == Append(log, e)

----------------------------------------------------------------------------
(* Construction *)

\* No message is part-way through.
Idle == [at |-> "idle"]

\* A constructor that starts the counter at 0.
new_from_zero ==
    /\ next_todo_id = U32(0, 0)
    /\ todos = Mapping_new
    /\ events = <<>>
    /\ last_call = [op |-> "new"]
    /\ issued = <<>>
    /\ deleted = {}
    /\ ok_calls = 0
    /\ running = Idle

\* InkyTodo::new
new ==
    /\ next_todo_id = U32(0, 1)
    /\ todos = Mapping_new
    /\ events = <<>>
    /\ last_call = [op |-> "new"]
    /\ issued = <<>>
    /\ deleted = {}
    /\ ok_calls = 0
    /\ running = Idle

\* A store that has lived long: every id below next_todo_id was issued by a
\* create_todo and later removed by a delete_todo.  The log and the
\* observations cover the messages from this state on.
Aged ==
    /\ \E k \in 0..NearMax : next_todo_id = U32(LimbMax, LimbMax - k)
    /\ todos = Mapping_new
    /\ events = <<>>
    /\ last_call = [op |-> "aged"]
    /\ issued = <<>>
    /\ deleted = {}
    /\ ok_calls = 0
    /\ running = Idle

Init == new \/ Aged

----------------------------------------------------------------------------
(* Messages *)

\* create_todo storing under the counter's value after the increment.
create_todo_key_after_increment(title, description) ==
    LET todo_id == next_todo_id IN
    IF is_empty(title)
    THEN /\ last_call' = [op |-> "create_todo", title |-> title,
                          description |-> description,
                          ret |-> Err("Title cannot be empty")]
         /\ UNCHANGED <<next_todo_id, todos, events, issued, deleted, ok_calls>>
    ELSE LET todo == Todo(todo_id, title, description, "Pending") IN
         /\ next_todo_id' = saturating_add(next_todo_id, 1)
         /\ todos' = Mapping_insert(todos, next_todo_id', todo)
         /\ events' = emit_event(events, TodoCreated(todo_id, title))
         /\ last_call' = [op |-> "create_todo", title |-> title,
                          description |-> description, ret |-> Ok(todo_id)]
         /\ issued' = Append(issued, todo_id)
         /\ ok_calls' = ok_calls + 1
         /\ UNCHANGED deleted

\* create_todo with a checked increment: an error once the counter is u32::MAX.
create_todo_checked(title, description) ==
    LET todo_id == next_todo_id IN
    IF is_empty(title)
    THEN /\ last_call' = [op |-> "create_todo", title |-> title,
                          description |-> description,
                          ret |-> Err("Title cannot be empty")]
         /\ UNCHANGED <<next_todo_id, todos, events, issued, deleted, ok_calls>>
    ELSE IF next_todo_id = U32_MAX
    THEN /\ last_call' = [op |-> "create_todo", title |-> title,
                          description |-> description,
                          ret |-> Err("Todo ids exhausted")]
         /\ UNCHANGED <<next_todo_id, todos, events, issued, deleted, ok_calls>>
    ELSE LET todo == Todo(todo_id, title, description, "Pending") IN
         /\ todos' = Mapping_insert(todos, todo_id, todo)
         /\ next_todo_id' = saturating_add(next_todo_id, 1)
         /\ events' = emit_event(events, TodoCreated(todo_id, title))
         /\ last_call' = [op |-> "create_todo", title |-> title,
                          description |-> description, ret |-> Ok(todo_id)]
         /\ issued' = Append(issued, todo_id)
         /\ ok_calls' = ok_calls + 1
         /\ UNCHANGED deleted

\* InkyTodo::create_todo
create_todo(title, description) ==
    LET todo_id == next_todo_id IN
    IF is_empty(title)
    THEN /\ last_call' = [op |-> "create_todo", title |-> title,
                          description |-> description,
                          ret |-> Err("Title cannot be empty")]
         /\ UNCHANGED <<next_todo_id, todos, events, issued, deleted, ok_calls>>
    ELSE LET todo == Todo(todo_id, title, description, "Pending") IN
         /\ todos' = Mapping_insert(todos, todo_id, todo)
         /\ next_todo_id' = saturating_add(next_todo_id, 1)
         /\ events' = emit_event(events, TodoCreated(todo_id, title))
         /\ last_call' = [op |-> "create_todo", title |-> title,
                          description |-> description, ret |-> Ok(todo_id)]
         /\ issued' = Append(issued, todo_id)
         /\ ok_calls' = ok_calls + 1
         /\ UNCHANGED deleted

\* get_todo reading with Mapping::take, which removes what it returns.
get_todo_take(todo_id) ==
    /\ last_call' = [op |-> "get_todo", todo_id |-> todo_id,
                     ret |-> Mapping_get(todos, todo_id)]
    /\ todos' = Mapping_remove(todos, todo_id)
    /\ UNCHANGED <<next_todo_id, events, issued, deleted, ok_calls>>

\* InkyTodo::get_todo
get_todo(todo_id) ==
    /\ last_call' = [op |-> "get_todo", todo_id |-> todo_id,
                     ret |-> Mapping_get(todos, todo_id)]
    /\ UNCHANGED <<next_todo_id, todos, events, issued, deleted, ok_calls>>

\* update_todo_status building a fresh record instead of changing the stored one.
update_todo_status_rebuild(todo_id, new_status) ==
    LET found == Mapping_get(todos, todo_id) IN
    IF found = None
    THEN /\ last_call' = [op |-> "update_todo_status", todo_id |-> todo_id,
                          new_status |-> new_status, ret |-> Err("Todo not found")]
         /\ UNCHANGED <<next_todo_id, todos, events, issued, deleted, ok_calls>>
    ELSE LET todo == Todo(todo_id, found.val.title, "", new_status) IN
         /\ todos' = Mapping_insert(todos, todo_id, todo)
         /\ events' = emit_event(events, TodoUpdated(todo_id, new_status))
         /\ last_call' = [op |-> "update_todo_status", todo_id |-> todo_id,
                          new_status |-> new_status, ret |-> Ok(Unit)]
         /\ ok_calls' = ok_calls + 1
         /\ UNCHANGED <<next_todo_id, issued, deleted>>

\* update_todo_status with a status state machine: only a Pending record moves.
update_todo_status_guarded(todo_id, new_status) ==
    LET found == Mapping_get(todos, todo_id) IN
    IF found = None
    THEN /\ last_call' = [op |-> "update_todo_status", todo_id |-> todo_id,
                          new_status |-> new_status, ret |-> Err("Todo not found")]
         /\ UNCHANGED <<next_todo_id, todos, events, issued, deleted, ok_calls>>
    ELSE IF found.val.status # "Pending"
    THEN /\ last_call' = [op |-> "update_todo_status", todo_id |-> todo_id,
                          new_status |-> new_status, ret |-> Err("Todo is closed")]
         /\ UNCHANGED <<next_todo_id, todos, events, issued, deleted, ok_calls>>
    ELSE LET todo == [found.val EXCEPT !.status = new_status] IN
         /\ todos' = Mapping_insert(todos, todo_id, todo)
         /\ events' = emit_event(events, TodoUpdated(todo_id, new_status))
         /\ last_call' = [op |-> "update_todo_status", todo_id |-> todo_id,
                          new_status |-> new_status, ret |-> Ok(Unit)]
         /\ ok_calls' = ok_calls + 1
         /\ UNCHANGED <<next_todo_id, issued, deleted>>

\* update_todo_status emitting the status the record had before the call.
update_todo_status_emit_old(todo_id, new_status) ==
    LET found == Mapping_get(todos, todo_id) IN
    IF found = None
    THEN /\ last_call' = [op |-> "update_todo_status", todo_id |-> todo_id,
                          new_status |-> new_status, ret |-> Err("Todo not found")]
         /\ UNCHANGED <<next_todo_id, todos, events, issued, deleted, ok_calls>>
    ELSE LET todo == [found.val EXCEPT !.status = new_status] IN
         /\ todos' = Mapping_insert(todos, todo_id, todo)
         /\ events' = emit_event(events, TodoUpdated(todo_id, found.val.status))
         /\ last_call' = [op |-> "update_todo_status", todo_id |-> todo_id,
                          new_status |-> new_status, ret |-> Ok(Unit)]
         /\ ok_calls' = ok_calls + 1
         /\ UNCHANGED <<next_todo_id, issued, deleted>>

\* InkyTodo::update_todo_status
update_todo_status(todo_id, new_status) ==
    LET found == Mapping_get(todos, todo_id) IN
    IF found = None
    THEN /\ last_call' = [op |-> "update_todo_status", todo_id |-> todo_id,
                          new_status |-> new_status, ret |-> Err("Todo not found")]
         /\ UNCHANGED <<next_todo_id, todos, events, issued, deleted, ok_calls>>
    ELSE LET todo == [found.val EXCEPT !.status = new_status] IN
         /\ todos' = Mapping_insert(todos, todo_id, todo)
         /\ events' = emit_event(events, TodoUpdated(todo_id, new_status))
         /\ last_call' = [op |-> "update_todo_status", todo_id |-> todo_id,
                          new_status |-> new_status, ret |-> Ok(Unit)]
         /\ ok_calls' = ok_calls + 1
         /\ UNCHANGED <<next_todo_id, issued, deleted>>

\* delete_todo without the existence check.
delete_todo_unchecked(todo_id) ==
    LET found == Mapping_get(todos, todo_id)
        title == IF found = None THEN "" ELSE found.val.title
    IN  /\ todos' = Mapping_remove(todos, todo_id)
        /\ events' = emit_event(events, TodoDeleted(todo_id, title))
        /\ last_call' = [op |-> "delete_todo", todo_id |-> todo_id, ret |-> Ok(Unit)]
        /\ deleted' = deleted \cup {todo_id}
        /\ ok_calls' = ok_calls + 1
        /\ UNCHANGED <<next_todo_id, issued>>

\* delete_todo without the emit_event.
delete_todo_silent(todo_id) ==
    LET found == Mapping_get(todos, todo_id) IN
    IF found = None
    THEN /\ last_call' = [op |-> "delete_todo", todo_id |-> todo_id,
                          ret |-> Err("Todo not found")]
         /\ UNCHANGED <<next_todo_id, todos, events, issued, deleted, ok_calls>>
    ELSE /\ todos' = Mapping_remove(todos, todo_id)
         /\ last_call' = [op |-> "delete_todo", todo_id |-> todo_id, ret |-> Ok(Unit)]
         /\ deleted' = deleted \cup {todo_id}
         /\ ok_calls' = ok_calls + 1
         /\ UNCHANGED <<next_todo_id, events, issued>>

\* delete_todo reading the title after the removal, when the record is gone.
delete_todo_title_after_remove(todo_id) ==
    LET found == Mapping_get(todos, todo_id) IN
    IF found = None
    THEN /\ last_call' = [op |-> "delete_todo", todo_id |-> todo_id,
                          ret |-> Err("Todo not found")]
         /\ UNCHANGED <<next_todo_id, todos, events, issued, deleted, ok_calls>>
    ELSE /\ todos' = Mapping_remove(todos, todo_id)
         /\ LET after == Mapping_get(todos', todo_id)
                title == IF after = None THEN "" ELSE after.val.title
            IN  events' = emit_event(events, TodoDeleted(todo_id, title))
         /\ last_call' = [op |-> "delete_todo", todo_id |-> todo_id, ret |-> Ok(Unit)]
         /\ deleted' = deleted \cup {todo_id}
         /\ ok_calls' = ok_calls + 1
         /\ UNCHANGED <<next_todo_id, issued>>

\* InkyTodo::delete_todo
delete_todo(todo_id) ==
    LET found == Mapping_get(todos, todo_id) IN
    IF found = None
    THEN /\ last_call' = [op |-> "delete_todo", todo_id |-> todo_id,
                          ret |-> Err("Todo not found")]
         /\ UNCHANGED <<next_todo_id, todos, events, issued, deleted, ok_calls>>
    ELSE LET title == found.val.title IN
         /\ todos' = Mapping_remove(todos, todo_id)
         /\ events' = emit_event(events, TodoDeleted(todo_id, title))
         /\ last_call' = [op |-> "delete_todo", todo_id |-> todo_id, ret |-> Ok(Unit)]
         /\ deleted' = deleted \cup {todo_id}
         /\ ok_calls' = ok_calls + 1
         /\ UNCHANGED <<next_todo_id, issued>>

\* One message, from call to return.  The log is capped at MaxEvents events.
Next ==
    \/ \E title \in Titles, description \in Descriptions :
           /\ create_todo(title, description)
           /\ Len(events') <= MaxEvents
           /\ UNCHANGED running
    \/ \E todo_id \in ProbeIds :
           /\ get_todo(todo_id)
           /\ UNCHANGED running
    \/ \E todo_id \in ProbeIds, new_status \in TodoStatus :
           /\ update_todo_status(todo_id, new_status)
           /\ Len(events') <= MaxEvents
           /\ UNCHANGED running
    \/ \E todo_id \in ProbeIds :
           /\ delete_todo(todo_id)
           /\ Len(events') <= MaxEvents
           /\ UNCHANGED running

Spec == Init /\ [][Next]_vars

----------------------------------------------------------------------------
(* create_todo, statement by statement *)

\* create_todo reaching its emit_event without having stored the record.
create_todo_insert_late(title, description) ==
    /\ running = Idle
    /\ LET todo_id == next_todo_id IN
       IF is_empty(title)
       THEN /\ last_call' = [op |-> "create_todo", title |-> title,
                             description |-> description,
                             ret |-> Err("Title cannot be empty")]
            /\ UNCHANGED <<next_todo_id, todos, events, issued, deleted, ok_calls,
                           running>>
       ELSE /\ running' = [at |-> "inserted", todo_id |-> todo_id, title |-> title,
                           description |-> description]
            /\ UNCHANGED <<next_todo_id, todos, events, last_call, issued, deleted,
                           ok_calls>>

\* InkyTodo::create_todo up to self.todos.insert: the id is read, the title
\* validated, the record built and stored.
create_todo_insert(title, description) ==
    /\ running = Idle
    /\ LET todo_id == next_todo_id IN
       IF is_empty(title)
       THEN /\ last_call' = [op |-> "create_todo", title |-> title,
                             description |-> description,
                             ret |-> Err("Title cannot be empty")]
            /\ UNCHANGED <<next_todo_id, todos, events, issued, deleted, ok_calls,
                           running>>
       ELSE LET todo == Todo(todo_id, title, description, "Pending") IN
            /\ todos' = Mapping_insert(todos, todo_id, todo)
            /\ running' = [at |-> "inserted", todo_id |-> todo_id, title |-> title,
                           description |-> description]
            /\ UNCHANGED <<next_todo_id, events, last_call, issued, deleted, ok_calls>>

\* InkyTodo::create_todo, the counter: self.next_todo_id.saturating_add(1).
create_todo_advance ==
    /\ running.at = "inserted"
    /\ next_todo_id' = saturating_add(next_todo_id, 1)
    /\ running' = [running EXCEPT !.at = "advanced"]
    /\ UNCHANGED <<todos, events, last_call, issued, deleted, ok_calls>>

\* InkyTodo::create_todo, the emit_event and the return of Ok(todo_id).
create_todo_emit ==
    /\ running.at = "advanced"
    /\ events' = emit_event(events, TodoCreated(running.todo_id, running.title))
    /\ last_call' = [op |-> "create_todo", title |-> running.title,
                     description |-> running.description,
                     ret |-> Ok(running.todo_id)]
    /\ issued' = Append(issued, running.todo_id)
    /\ ok_calls' = ok_calls + 1
    /\ running' = Idle
    /\ UNCHANGED <<next_todo_id, todos, deleted>>

\* The messages with create_todo taken statement by statement.  Messages do not
\* overlap: another one starts only when none is part-way through.
NextSteps ==
    \/ \E title \in Titles, description \in Descriptions :
           /\ create_todo_insert(title, description)
           /\ running' # Idle => Len(events) < MaxEvents
    \/ create_todo_advance
    \/ create_todo_emit
    \/ \E todo_id \in ProbeIds :
           /\ running = Idle
           /\ get_todo(todo_id)
           /\ UNCHANGED running
    \/ \E todo_id \in ProbeIds, new_status \in TodoStatus :
           /\ running = Idle
           /\ update_todo_status(todo_id, new_status)
           /\ Len(events') <= MaxEvents
           /\ UNCHANGED running
    \/ \E todo_id \in ProbeIds :
           /\ running = Idle
           /\ delete_todo(todo_id)
           /\ Len(events') <= MaxEvents
           /\ UNCHANGED running

SpecSteps == Init /\ [][NextSteps]_vars

----------------------------------------------------------------------------
(* The calls of a new store: two creates, an update, a delete, a create *)

ScenarioIds == ProbeIds \cup {U32(0, 3)}

\* The next of the five calls, ok_calls of them having returned Ok.
ScenarioCall ==
    \/ ok_calls = 0 /\ create_todo("Buy milk", "2L") /\ UNCHANGED running
    \/ ok_calls = 1 /\ create_todo("Walk dog", "") /\ UNCHANGED running
    \/ ok_calls = 2 /\ update_todo_status(U32(0, 1), "Completed") /\ UNCHANGED running
    \/ ok_calls = 3 /\ delete_todo(U32(0, 2)) /\ UNCHANGED running
    \/ ok_calls = 4 /\ create_todo("Feed cat", "") /\ UNCHANGED running

\* A call between them that emits nothing: a get_todo, or a call that fails.
QuietCall ==
    \/ \E todo_id \in ScenarioIds : get_todo(todo_id) /\ UNCHANGED running
    \/ \E description \in Descriptions :
           create_todo("", description) /\ UNCHANGED running
    \/ \E todo_id \in ScenarioIds, new_status \in TodoStatus :
           /\ update_todo_status(todo_id, new_status)
           /\ events' = events
           /\ UNCHANGED running
    \/ \E todo_id \in ScenarioIds :
           /\ delete_todo(todo_id)
           /\ events' = events
           /\ UNCHANGED running

NextScenario == ScenarioCall \/ QuietCall

SpecScenario == new /\ [][NextScenario]_vars

----------------------------------------------------------------------------
TypeOK ==
    /\ next_todo_id \in (0..LimbMax) \X (0..LimbMax)
    /\ \A k \in DOMAIN todos : todos[k].status \in TodoStatus
    /\ Len(events) <= MaxEvents

----------------------------------------------------------------------------
(* Properties *)

IssuedIdx == 1..Len(issued)

\* C1: the ids returned by the successful create_todo calls are strictly
\* increasing in call order, so none is returned twice, also once next_todo_id
\* has reached u32::MAX.
C1_IdsStrictlyIncreasing ==
    \A i, j \in IssuedIdx : i < j => U32Lt(issued[i], issued[j])

\* C2: next_todo_id is strictly greater than every id a successful create_todo
\* has returned, deleted since or not.
C2_NextAboveIssued ==
    \A i \in IssuedIdx : U32Lt(issued[i], next_todo_id)

\* C3: a record that stays in the mapping across a step keeps its id, title
\* and description, whatever the message; only its status may differ.
C3_FieldsImmutable ==
    [][\A k \in DOMAIN todos \cap DOMAIN todos' :
           /\ todos'[k].id = todos[k].id
           /\ todos'[k].title = todos[k].title
           /\ todos'[k].description = todos[k].description]_vars

\* C4: an id removed by a successful delete_todo is absent from the mapping in
\* every later state: get_todo of it returns None and no create_todo stores
\* under it again.
C4_DeletedStaysAbsent ==
    \A id \in deleted : Mapping_get(todos, id) = None

\* The successor of a u32 below u32::MAX, by limbs.
IsSucc(a, b) ==
    \/ a[2] < LimbMax /\ b = <<a[1], a[2] + 1>>
    \/ a[2] = LimbMax /\ a[1] < LimbMax /\ b = <<a[1] + 1, 0>>

OkCreate(c) == c.op = "create_todo" /\ c.ret.tag = "Ok"

\* C5: next_todo_id is 1 in a newly constructed store, never decreases, moves
\* only on a successful create_todo, which advances it by exactly 1 below
\* u32::MAX, and stays at u32::MAX once there.
C5_CounterSaturates ==
    /\ last_call.op = "new" => next_todo_id = <<0, 1>>
    /\ [][/\ U32Le(next_todo_id, next_todo_id')
          /\ OkCreate(last_call') /\ next_todo_id # U32_MAX
                => IsSucc(next_todo_id, next_todo_id')
          /\ ~OkCreate(last_call') => next_todo_id' = next_todo_id
          /\ next_todo_id = U32_MAX => next_todo_id' = U32_MAX]_vars

\* C5 witness: a create_todo succeeded with the counter at u32::MAX, after one
\* that moved it there, and the counter is still u32::MAX.
C5_Witness ==
    /\ OkCreate(last_call)
    /\ last_call.ret.val = U32_MAX
    /\ Len(issued) >= 2
    /\ issued[1] # U32_MAX
    /\ next_todo_id = U32_MAX

\* C6: update_todo_status or delete_todo on an id absent from the mapping
\* returns Err("Todo not found"), emits nothing and leaves the mapping and
\* next_todo_id as they were.
C6_NotFoundNoEffect ==
    [][(/\ last_call'.op \in {"update_todo_status", "delete_todo"}
        /\ last_call'.todo_id \notin DOMAIN todos)
          => /\ last_call'.ret = [tag |-> "Err", err |-> "Todo not found"]
             /\ events' = events
             /\ todos' = todos
             /\ next_todo_id' = next_todo_id]_vars

\* C6 witness: a delete_todo of an already deleted id failed while another
\* record is live.
C6_Witness ==
    /\ last_call.op = "delete_todo"
    /\ last_call.ret.tag = "Err"
    /\ last_call.todo_id \in deleted
    /\ DOMAIN todos # {}

\* C7: create_todo with an empty title returns Err("Title cannot be empty"),
\* whatever the description, and leaves next_todo_id, the mapping and the log
\* as they were.
C7_EmptyTitleRejected ==
    [][(last_call'.op = "create_todo" /\ last_call'.title = "")
          => /\ last_call'.ret = [tag |-> "Err", err |-> "Title cannot be empty"]
             /\ next_todo_id' = next_todo_id
             /\ todos' = todos
             /\ events' = events]_vars

\* C7 witness: create_todo("", "d") was rejected by a store that holds records.
C7_Witness ==
    /\ last_call.op = "create_todo"
    /\ last_call.title = ""
    /\ last_call.description = "d"
    /\ last_call.ret.tag = "Err"
    /\ DOMAIN todos # {}

\* C8: update_todo_status(id, S) on a present id returns Ok, sets the status
\* of that record to S and keeps its id, title and description, leaves every
\* other record and next_todo_id alone, and appends exactly the event
\* TodoUpdated{id, S}.
C8_UpdateOnlyStatus ==
    [][(last_call'.op = "update_todo_status" /\ last_call'.todo_id \in DOMAIN todos)
          => LET id == last_call'.todo_id
                 S == last_call'.new_status
             IN  /\ last_call'.ret = [tag |-> "Ok", val |-> <<>>]
                 /\ DOMAIN todos' = DOMAIN todos
                 /\ todos'[id] = [id |-> todos[id].id, title |-> todos[id].title,
                                  description |-> todos[id].description, status |-> S]
                 /\ \A k \in DOMAIN todos \ {id} : todos'[k] = todos[k]
                 /\ next_todo_id' = next_todo_id
                 /\ events' = events \o <<[kind |-> "TodoUpdated", todo_id |-> id,
                                           new_status |-> S]>>]_vars

\* C8 witness: an update_todo_status succeeded on one of two live records, the
\* one with a description.
C8_Witness ==
    /\ last_call.op = "update_todo_status"
    /\ last_call.ret.tag = "Ok"
    /\ Cardinality(DOMAIN todos) = 2
    /\ todos[last_call.todo_id].description = "d"
    /\ todos[last_call.todo_id].status = "Cancelled"

\* C9: right after a successful create_todo(t, d) returning id, get_todo(id)
\* is Some of the record {id, t, d, Pending}.
C9_CreateThenGet ==
    OkCreate(last_call)
        => Mapping_get(todos, last_call.ret.val)
             = [tag |-> "Some",
                val |-> [id |-> last_call.ret.val, title |-> last_call.title,
                         description |-> last_call.description,
                         status |-> "Pending"]]

\* C9 witness: a create_todo with an empty description succeeded while
\* another record was live.
C9_Witness ==
    /\ OkCreate(last_call)
    /\ last_call.description = ""
    /\ Cardinality(DOMAIN todos) = 2

EventKind(op) ==
    CASE op = "create_todo" -> "TodoCreated"
      [] op = "update_todo_status" -> "TodoUpdated"
      [] op = "delete_todo" -> "TodoDeleted"

OkMutation(c) ==
    c.op \in {"create_todo", "update_todo_status", "delete_todo"} /\ c.ret.tag = "Ok"

\* C10: a successful create_todo, update_todo_status or delete_todo appends
\* exactly one event, of its own kind, after the events already logged; a
\* get_todo or a failing call leaves the log as it was; so the log is as long
\* as the number of successful mutating calls.
C10_OneEventPerMutation ==
    /\ [](Len(events) = ok_calls)
    /\ [][IF OkMutation(last_call')
          THEN /\ Len(events') = Len(events) + 1
               /\ SubSeq(events', 1, Len(events)) = events
               /\ events'[Len(events')].kind = EventKind(last_call'.op)
          ELSE events' = events]_vars

\* C10 witness: the log holds one event of each kind, after a failing call.
C10_Witness ==
    /\ Len(events) = 3
    /\ {events[i].kind : i \in 1..3} = {"TodoCreated", "TodoUpdated", "TodoDeleted"}
    /\ ok_calls = 3
    /\ last_call.op # "get_todo"
    /\ last_call.op # "new"
    /\ last_call.op # "aged"
    /\ last_call.ret.tag = "Err"

\* C11: inside create_todo the record is stored before the event is emitted:
\* in the step that appends TodoCreated{todo_id, title} the mapping already
\* holds, under todo_id, the record being created, and still does afterwards,
\* so a get_todo(todo_id) issued once the event can be seen returns Some.
C11_StoredBeforeCreated ==
    [][(/\ Len(events') = Len(events) + 1
        /\ events'[Len(events')].kind = "TodoCreated")
          => LET e == events'[Len(events')]
                 stored == [id |-> e.todo_id, title |-> e.title,
                            description |-> running.description,
                            status |-> "Pending"]
             IN  /\ Mapping_get(todos, e.todo_id) = [tag |-> "Some", val |-> stored]
                 /\ Mapping_get(todos', e.todo_id) = [tag |-> "Some", val |-> stored]]_vars

\* C11 witness: a create_todo has emitted its event and returned, the record
\* of the returned id is in the mapping, another record beside it.
C11_Witness ==
    /\ running = Idle
    /\ OkCreate(last_call)
    /\ events[Len(events)] = [kind |-> "TodoCreated", todo_id |-> last_call.ret.val,
                              title |-> last_call.title]
    /\ last_call.ret.val \in DOMAIN todos
    /\ Cardinality(DOMAIN todos) = 2

\* C12: every key of the mapping maps to a record whose id field is that key.
C12_KeyIsId ==
    \A k \in DOMAIN todos : todos[k].id = k

\* C12 witness: two records are live, one of them under u32::MAX and one of
\* them re-inserted by an update_todo_status.
C12_Witness ==
    /\ Cardinality(DOMAIN todos) = 2
    /\ U32_MAX \in DOMAIN todos
    /\ \E k \in DOMAIN todos : todos[k].status # "Pending"

\* C13: a successful delete_todo(id) removes the entry of id and no other,
\* leaves the other records and next_todo_id as they were, and appends the one
\* event TodoDeleted{id, the title stored under id before the removal}.
C13_DeleteOnlyThat ==
    [][(last_call'.op = "delete_todo" /\ last_call'.ret.tag = "Ok")
          => LET id == last_call'.todo_id
             IN  /\ id \in DOMAIN todos
                 /\ DOMAIN todos' = DOMAIN todos \ {id}
                 /\ \A k \in DOMAIN todos' : todos'[k] = todos[k]
                 /\ next_todo_id' = next_todo_id
                 /\ events' = events \o <<[kind |-> "TodoDeleted", todo_id |-> id,
                                           title |-> todos[id].title]>>]_vars

\* C13 witness: a delete_todo removed the record titled "b" and left the one
\* titled "a".
C13_Witness ==
    /\ last_call.op = "delete_todo"
    /\ last_call.ret.tag = "Ok"
    /\ events[Len(events)].title = "b"
    /\ DOMAIN todos # {}
    /\ \A k \in DOMAIN todos : todos[k].title = "a"

\* C14: get_todo(id) changes neither the mapping, next_todo_id nor the log, and
\* returns Some(the record under id) when id is a key of the mapping and None
\* otherwise.
C14_GetIsPure ==
    [][last_call'.op = "get_todo"
          => /\ todos' = todos
             /\ next_todo_id' = next_todo_id
             /\ events' = events
             /\ last_call'.ret =
                  IF last_call'.todo_id \in DOMAIN todos
                  THEN [tag |-> "Some", val |-> todos[last_call'.todo_id]]
                  ELSE [tag |-> "None"]]_vars

\* C14 witness: get_todo of a deleted id returned None while another record
\* is live.
C14_Witness ==
    /\ last_call.op = "get_todo"
    /\ last_call.ret.tag = "None"
    /\ last_call.todo_id \in deleted
    /\ DOMAIN todos # {}

IsCreate(c, title, description) ==
    c.op = "create_todo" /\ c.title = title /\ c.description = description

OkId(lo) == [tag |-> "Ok", val |-> <<0, lo>>]

\* C15: on a new store create_todo("Buy milk", "2L") returns Ok(1),
\* create_todo("Walk dog", "") Ok(2), update_todo_status(1, Completed) Ok(())
\* with get_todo(1).status = Completed from then on, delete_todo(2) Ok(()) with
\* get_todo(2) = None from then on, and create_todo("Feed cat", "") Ok(3).
C15_EndToEnd ==
    [][LET c == last_call' IN
       /\ (ok_calls = 0 /\ IsCreate(c, "Buy milk", "2L")) => c.ret = OkId(1)
       /\ (ok_calls = 1 /\ IsCreate(c, "Walk dog", "")) => c.ret = OkId(2)
       /\ (/\ ok_calls = 2
           /\ c.op = "update_todo_status"
           /\ c.todo_id = <<0, 1>>
           /\ c.new_status = "Completed")
             => /\ c.ret = [tag |-> "Ok", val |-> <<>>]
                /\ <<0, 1>> \in DOMAIN todos'
                /\ todos'[<<0, 1>>].status = "Completed"
       /\ (ok_calls = 3 /\ c.op = "delete_todo" /\ c.todo_id = <<0, 2>>)
             => /\ c.ret = [tag |-> "Ok", val |-> <<>>]
                /\ <<0, 2>> \notin DOMAIN todos'
       /\ (ok_calls = 4 /\ IsCreate(c, "Feed cat", "")) => c.ret = OkId(3)
       /\ (ok_calls >= 3 /\ c.op = "get_todo" /\ c.todo_id = <<0, 1>>)
             => c.ret.tag = "Some" /\ c.ret.val.status = "Completed"
       /\ (ok_calls >= 4 /\ c.op = "get_todo" /\ c.todo_id = <<0, 2>>)
             => c.ret = [tag |-> "None"]]_vars

\* C15 witness: the five calls have returned 1, 2 and 3 for the creates, and a
\* get_todo(2) after them returned None.
C15_Witness ==
    /\ ok_calls = 5
    /\ issued = << <<0, 1>>, <<0, 2>>, <<0, 3>> >>
    /\ last_call.op = "get_todo"
    /\ last_call.todo_id = <<0, 2>>
    /\ last_call.ret.tag = "None"
    /\ DOMAIN todos = {<<0, 1>>, <<0, 3>>}
    /\ todos[<<0, 1>>].status = "Completed"

\* C16: update_todo_status has no status state machine: on every present id,
\* whatever the stored status and whatever the new one (the same one, or
\* Pending after Completed or Cancelled), the call can only return Ok, and it
\* stores the new status and emits TodoUpdated with it.
C16_AnyTransition ==
    /\ [](\A id \in DOMAIN todos, S \in TodoStatus :
            ENABLED (/\ update_todo_status(id, S)
                     /\ last_call'.ret.tag = "Ok"
                     /\ todos'[id].status = S))
    /\ [][\A from, to \in TodoStatus :
            (/\ last_call'.op = "update_todo_status"
             /\ last_call'.new_status = to
             /\ last_call'.todo_id \in DOMAIN todos
             /\ todos[last_call'.todo_id].status = from)
               => /\ last_call'.ret.tag = "Ok"
                  /\ todos'[last_call'.todo_id].status = to
                  /\ events'[Len(events')]
                       = [kind |-> "TodoUpdated", todo_id |-> last_call'.todo_id,
                          new_status |-> to]
                  /\ Len(events') = Len(events) + 1]_vars

\* C16 witness: a record went from Pending to Cancelled and back to Pending.
C16_Witness ==
    /\ Len(events) = 3
    /\ events[2].kind = "TodoUpdated"
    /\ events[2].new_status = "Cancelled"
    /\ events[3] = [kind |-> "TodoUpdated", todo_id |-> events[2].todo_id,
                    new_status |-> "Pending"]
    /\ last_call.op = "update_todo_status"
    /\ last_call.ret.tag = "Ok"
    /\ todos[events[3].todo_id].status = "Pending"

\* C17: create_todo never overwrites a live record: the id it is about to
\* insert under, next_todo_id, is not a key of the mapping, and a successful
\* create_todo makes the mapping one record larger.
C17_NextIdFree ==
    /\ [](next_todo_id \notin DOMAIN todos)
    /\ [][OkCreate(last_call')
            => Cardinality(DOMAIN todos') = Cardinality(DOMAIN todos) + 1]_vars

\* The greatest index of a non-empty set of log indices.
LastOf(I) == CHOOSE i \in I : \A j \in I : j <= i

\* Indices of the TodoCreated and TodoDeleted events of id.
LifeOf(id) ==
    {i \in 1..Len(events) :
        events[i].todo_id = id /\ events[i].kind \in {"TodoCreated", "TodoDeleted"}}

\* Indices of the TodoUpdated events of id after index c.
UpdatesAfter(id, c) ==
    {i \in (c + 1)..Len(events) :
        events[i].todo_id = id /\ events[i].kind = "TodoUpdated"}

\* C18: the log reconstructs the store: an id is a key of the mapping exactly
\* when its latest TodoCreated-or-TodoDeleted event is a TodoCreated; its
\* stored title is then that event's title and its stored status the
\* new_status of its latest TodoUpdated after that event, or Pending.
C18_LogReconstructs ==
    \A id \in DOMAIN todos \cup {events[i].todo_id : i \in 1..Len(events)} :
        LET life == LifeOf(id)
            live == life # {} /\ events[LastOf(life)].kind = "TodoCreated"
        IN  /\ id \in DOMAIN todos <=> live
            /\ live =>
                 LET c == LastOf(life)
                     ups == UpdatesAfter(id, c)
                 IN  /\ todos[id].title = events[c].title
                     /\ todos[id].status =
                          IF ups = {} THEN "Pending"
                          ELSE events[LastOf(ups)].new_status

\* C18 witness: an id was created, updated and created again, so its latest
\* TodoUpdated precedes its latest TodoCreated and the stored status is Pending;
\* the two titles differ.
C18_Witness ==
    /\ Len(events) = 3
    /\ events[1].kind = "TodoCreated"
    /\ events[2].kind = "TodoUpdated"
    /\ events[3].kind = "TodoCreated"
    /\ events[2].todo_id = events[1].todo_id
    /\ events[3].todo_id = events[1].todo_id
    /\ events[3].title # events[1].title
    /\ events[2].new_status = "Completed"
    /\ todos[events[3].todo_id].status = "Pending"

\* C19: create_todo fails for an empty title only: with a non-empty title it
\* can, in every state, u32::MAX included, only return Ok(the value of
\* next_todo_id before the call).
C19_CreateOnlyFailsOnEmptyTitle ==
    /\ [](\A title \in Titles \ {""}, description \in Descriptions :
            ENABLED (/\ create_todo(title, description)
                     /\ last_call'.ret.tag = "Ok"))
    /\ [][(last_call'.op = "create_todo" /\ last_call'.title # "")
            => last_call'.ret = [tag |-> "Ok", val |-> next_todo_id]]_vars

\* C19 witness: a second create_todo with the counter at u32::MAX returned
\* Ok(u32::MAX).
C19_Witness ==
    /\ OkCreate(last_call)
    /\ last_call.ret.val = U32_MAX
    /\ Len(issued) >= 2
    /\ issued[Len(issued) - 1] = U32_MAX

====
